---------------------------- MODULE Spec2Model ----------------------------
(***************************************************************************)
(* Z-Image provider dispatch layer (ModelScope & Gitee) of SanHub:         *)
(* generateWithZImage, its two adapters, the Gitee key rotation, the       *)
(* reference-image resolver and the ModelScope task poller.                *)
(*                                                                         *)
(* JavaScript runs every piece of code between two awaits to completion,   *)
(* so one action is one such piece: it starts when an awaited promise      *)
(* settles (the settled value is the action's input) and ends at the next  *)
(* await, return or throw.                                                 *)
(*                                                                         *)
(* Strings the code takes apart (credential strings, image data) are       *)
(* sequences of one-character strings; opaque strings are TLA+ strings.    *)
(* An optional value is <<>> (absent) or <<v>> (present).                  *)
(***************************************************************************)
EXTENDS Integers, Sequences, FiniteSets, TLC

\* ------------------------------------------------------------------ bounds

\* Concurrent generateWithZImage calls.
NumRequests == 2
\* generateWithZImage calls made during one run of the process.
MaxCalls == 5
\* Longest request.images list.
MaxImages == 3

\* --------------------------------------------------------------- constants

TASK_POLL_INTERVAL_MS == 5000
TASK_POLL_MAX_ATTEMPTS == 60
\* The price used when none is configured (config.pricing?.x || 30).
DEFAULT_COST == 30

ASYNC_MODELS == {"Qwen/Qwen-Image-Edit-2509", "Qwen/Qwen-Image", "black-forest-labs/FLUX.2-dev"}
REQUIRE_REFERENCE_MODELS == {"Qwen/Qwen-Image-Edit-2509"}
DEFAULT_MODELSCOPE_MODEL == "Tongyi-MAI/Z-Image-Turbo"

\* ---------------------------------------------------------------- options

None == <<>>
Some(v) == <<v>>

\* JavaScript truthiness of an optional string (absent and "" are falsy).
Truthy(opt) == opt # None /\ opt[1] # <<>>

\* a || b for optional values.
OrElse(a, b) == IF Truthy(a) THEN a ELSE b

\* ---------------------------------------------------------------- strings

\* What String.prototype.trim strips (the characters the inputs use).
WhiteSpace == {" ", "\t", "\n"}

RECURSIVE TrimStart(_)
TrimStart(s) ==
  IF s # <<>> /\ Head(s) \in WhiteSpace THEN TrimStart(Tail(s)) ELSE s

RECURSIVE TrimEnd(_)
TrimEnd(s) ==
  IF s # <<>> /\ s[Len(s)] \in WhiteSpace THEN TrimEnd(SubSeq(s, 1, Len(s) - 1)) ELSE s

\* k.trim()
Trim(s) == TrimEnd(TrimStart(s))

\* keys.split(','): always at least one piece, "" gives [""].
RECURSIVE SplitFrom(_, _, _)
SplitFrom(s, i, piece) ==
  IF i > Len(s) THEN <<piece>>
  ELSE IF s[i] = "," THEN <<piece>> \o SplitFrom(s, i + 1, <<>>)
  ELSE SplitFrom(s, i + 1, Append(piece, s[i]))

Split(s) == SplitFrom(s, 1, <<>>)

RECURSIVE TrimNonEmpty(_)
TrimNonEmpty(pieces) ==
  IF pieces = <<>> THEN <<>>
  ELSE LET k == Trim(Head(pieces))
       IN  (IF k # <<>> THEN <<k>> ELSE <<>>) \o TrimNonEmpty(Tail(pieces))

\* keys.split(',').map(k => k.trim()).filter(k => k)
KeyList(keys) == TrimNonEmpty(Split(keys))

StartsWith(s, prefix) ==
  Len(s) >= Len(prefix) /\ SubSeq(s, 1, Len(prefix)) = prefix

HttpPrefix == <<"h", "t", "t", "p", ":", "/", "/">>
HttpsPrefix == <<"h", "t", "t", "p", "s", ":", "/", "/">>

isHttpUrl(value) == StartsWith(value, HttpPrefix) \/ StartsWith(value, HttpsPrefix)

\* ----------------------------------------------------------------- base64

Base64Alphabet ==
  << "A", "B", "C", "D", "E", "F", "G", "H", "I", "J", "K", "L", "M", "N", "O", "P",
     "Q", "R", "S", "T", "U", "V", "W", "X", "Y", "Z", "a", "b", "c", "d", "e", "f",
     "g", "h", "i", "j", "k", "l", "m", "n", "o", "p", "q", "r", "s", "t", "u", "v",
     "w", "x", "y", "z", "0", "1", "2", "3", "4", "5", "6", "7", "8", "9", "+", "/" >>

B64(n) == Base64Alphabet[n + 1]

\* buffer.toString('base64')
RECURSIVE Base64(_)
Base64(bytes) ==
  IF bytes = <<>> THEN <<>>
  ELSE IF Len(bytes) = 1 THEN
    << B64(bytes[1] \div 4), B64((bytes[1] % 4) * 16), "=", "=" >>
  ELSE IF Len(bytes) = 2 THEN
    << B64(bytes[1] \div 4),
       B64((bytes[1] % 4) * 16 + bytes[2] \div 16),
       B64((bytes[2] % 16) * 4), "=" >>
  ELSE
    << B64(bytes[1] \div 4),
       B64((bytes[1] % 4) * 16 + bytes[2] \div 16),
       B64((bytes[2] % 16) * 4 + bytes[3] \div 64),
       B64(bytes[3] % 64) >> \o Base64(SubSeq(bytes, 4, Len(bytes)))

\* `data:${mime};base64,${payload}`
DataUri(mime, payload) == [mime |-> mime, base64 |-> payload]


\* ----------------------------------------------------------------- errors
\* One definition per throw statement.  kind is the failure class of the
\* design's error taxonomy for that throw; msg identifies the message.

ErrGiteeKeyNotConfigured == [kind |-> "ConfigurationError", msg |-> "gitee-api-key-not-configured"]
ErrGiteeKeyListEmpty == [kind |-> "ConfigurationError", msg |-> "gitee-api-key-list-empty"]
ErrGiteeApi(status, errMsg) ==
  [kind |-> "ProviderError", msg |-> "gitee-api-error", status |-> status, text |-> errMsg]
ErrGiteeNoImageData == [kind |-> "ProviderError", msg |-> "gitee-no-image-data"]
ErrZImageKeyNotConfigured == [kind |-> "ConfigurationError", msg |-> "zimage-api-key-not-configured"]
ErrReferenceRequired == [kind |-> "ValidationError", msg |-> "model-requires-reference-image"]
ErrPicUINotConfigured == [kind |-> "ConfigurationError", msg |-> "picui-not-configured"]
ErrUploadFailed == [kind |-> "UploadError", msg |-> "reference-upload-failed"]
ErrModelScopeApi(status, errMsg) ==
  [kind |-> "ProviderError", msg |-> "modelscope-api-error", status |-> status, text |-> errMsg]
ErrNoTaskId == [kind |-> "ProviderError", msg |-> "modelscope-no-task-id"]
ErrTaskQuery == [kind |-> "ProviderError", msg |-> "modelscope-task-query-failed"]
ErrTaskNoImage == [kind |-> "ProviderError", msg |-> "modelscope-task-succeeded-without-image"]
ErrTaskFailedDefault == "modelscope-task-failed"
\* Mutant: the provider's message is dropped.
ErrTaskFailedGeneric(message) == [kind |-> "ProviderError", msg |-> ErrTaskFailedDefault]

ErrTaskFailed(message) ==
  [kind |-> "ProviderError", msg |-> IF message # "" THEN message ELSE ErrTaskFailedDefault]
ErrTaskTimeout == [kind |-> "TimeoutError", msg |-> "modelscope-task-timeout"]
ErrNoImage == [kind |-> "ProviderError", msg |-> "modelscope-no-image"]
ErrDownload == [kind |-> "ProviderError", msg |-> "download-failed"]

\* ------------------------------------------------------------------ inputs

UrlA == <<"h", "t", "t", "p", ":", "/", "/", "a">>
RawB == <<"i", "V", "B">>
\* request.images[i].data: missing or empty, an http(s) URL, raw image data.
ImageData == {<<>>, UrlA, RawB}

RECURSIVE ImageLists(_)
ImageLists(n) ==
  IF n = 0 THEN {<<>>}
  ELSE LET shorter == ImageLists(n - 1)
       IN  shorter \cup {Append(l, d) : l \in {s \in shorter : Len(s) = n - 1}, d \in ImageData}

\* ZImageGenerateRequest: channel and model are "" when absent, images is
\* optional.  prompt, size, loras and numInferenceSteps are copied into the
\* payload and decide nothing.
Request(channel, model, images) == [channel |-> channel, model |-> model, images |-> images]

GiteeRequests == {Request("gitee", "", None)}

ModelIds == {"", "Qwen/Qwen-Image", "Qwen/Qwen-Image-Edit-2509"}
\* The third asynchronous model, the default model named, and an id that
\* differs from an asynchronous one in case only.
OtherModelIds == {"black-forest-labs/FLUX.2-dev", "Tongyi-MAI/Z-Image-Turbo", "qwen/qwen-image"}

\* Reference images in every arrangement for the default (synchronous) model;
\* the asynchronous models, whose calls run through the poller, with at most
\* ShortImages of them.
ModelScopeRequests ==
  {Request(ch, m, None) : ch \in {"", "modelscope", "zimage"}, m \in ModelIds}
    \cup {Request("", m, None) : m \in OtherModelIds}
    \cup {Request("", "", Some(l)) : l \in ImageLists(MaxImages)}
    \cup {Request("", m, Some(l)) : m \in ModelIds, l \in ImageLists(MaxImages - 2)}

ZImageRequests == GiteeRequests \cup ModelScopeRequests

\* Credential strings: "a,b,c", " a ,,b,", "c", " , " and "".
KeysABC == <<"a", ",", "b", ",", "c">>
KeysAB == <<" ", "a", " ", ",", ",", "b", ",">>
KeysC == <<"c">>
KeysBlank == <<" ", ",", " ">>
KeyStrings == {KeysABC, KeysAB, KeysC, KeysBlank, <<>>}

ZKey == <<"z", "k">>
PKey == <<"p", "k">>

Pricing(gitee, zimage) == Some([giteeImage |-> gitee, zimageImage |-> zimage])
\* config.pricing: absent, without the fields, zero prices, positive prices.
Pricings == {None, Pricing(None, None), Pricing(Some(0), Some(0)), Pricing(Some(12), Some(25))}

Config(gitee, zimage, picui, pricing) ==
  [giteeApiKey |-> gitee, zimageApiKey |-> zimage, picuiApiKey |-> picui, pricing |-> pricing]

\* What getSystemConfig may return: any field may be absent.
SystemConfigs ==
  {Config(g, None, None, p) : g \in {None} \cup {Some(k) : k \in KeyStrings}, p \in Pricings}
    \cup {Config(None, z, pk, p) : z \in {None, Some(ZKey)}, pk \in {None, Some(PKey)}, p \in Pricings}

\* The configurations of the concurrent specification: the key list changes
\* length from one call to the next.
RotationConfigs ==
  {Config(g, None, None, None) : g \in {None, Some(KeysABC), Some(KeysAB), Some(KeysC), Some(KeysBlank)}}

\* process.env: the two fallback keys, both unset or both set.
Environments ==
  { [GITEE_API_KEY |-> None, ZIMAGE_API_KEY |-> None],
    [GITEE_API_KEY |-> Some(<<"e">>), ZIMAGE_API_KEY |-> Some(ZKey)] }

\* uploadToPicUI(data, filename): a URL, or null.
PicUrl1 == <<"h", "t", "t", "p", "s", ":", "/", "/", "p", "1">>
PicUrl2 == <<"h", "t", "t", "p", "s", ":", "/", "/", "p", "2">>
UploadResults == {None, Some(PicUrl1), Some(PicUrl2)}

\* The body of a non-success answer to a generation POST: its text, what
\* JSON.parse makes of the text ("invalid": it throws, "null": null,
\* "object": an object) and, of an object, error?.message and message, ""
\* when undefined or empty.
ErrorBody(text, parsed, errorMessage, message) ==
  [text |-> text, parsed |-> parsed, errorMessage |-> errorMessage, message |-> message]
NoBody == ErrorBody("", "invalid", "", "")
BadGateway == ErrorBody("Bad Gateway", "invalid", "", "")
ErrorBodies ==
  { BadGateway,
    ErrorBody("null", "null", "", ""),
    ErrorBody("{}", "object", "", ""),
    ErrorBody("{\"message\":\"denied\"}", "object", "", "denied"),
    ErrorBody("{\"error\":{\"message\":\"\"},\"message\":\"denied\"}", "object", "", "denied"),
    ErrorBody("{\"error\":{\"message\":\"bad key\"},\"message\":\"denied\"}", "object", "bad key", "denied") }

\* Non-success answers: response.status and the body.
Failure(status, body) == [status |-> status, body |-> body]
Failures == {Failure(401, b) : b \in ErrorBodies} \cup {Failure(502, BadGateway)}

\* Gitee's answer to the generation POST.
GiteeEntry(b64, type) == [b64_json |-> b64, type |-> type]
GiteeAnswer(data) == [ok |-> TRUE, status |-> 200, body |-> NoBody, data |-> data]
GiteeFailure(f) == [ok |-> FALSE, status |-> f.status, body |-> f.body, data |-> None]
GiteeResponses ==
  {GiteeFailure(f) : f \in Failures}
    \cup { GiteeAnswer(None),
           GiteeAnswer(Some(<<>>)),
           GiteeAnswer(Some(<<GiteeEntry(<<>>, "image/png")>>)),
           GiteeAnswer(Some(<<GiteeEntry(<<"Q", "U", "J", "D">>, "image/png")>>)),
           GiteeAnswer(Some(<<GiteeEntry(<<"Q", "U", "I", "=">>, ""), GiteeEntry(<<"Q", "U", "J", "D">>, "image/png")>>)) }

\* The answers of the concurrent specification: a failure, an image.
GiteeAnswers ==
  { GiteeFailure(Failure(502, BadGateway)),
    GiteeAnswer(Some(<<GiteeEntry(<<"Q", "U", "J", "D">>, "image/png")>>)) }

\* ModelScope's answer to the generation POST: task_id and url are "" when
\* absent.  The last one carries both a task id and an image.
ModelScopeAnswer(task_id, images) ==
  [ok |-> TRUE, status |-> 200, body |-> NoBody, task_id |-> task_id, images |-> images]
ModelScopeFailure(f) ==
  [ok |-> FALSE, status |-> f.status, body |-> f.body, task_id |-> "", images |-> None]
ModelScopeResponses ==
  {ModelScopeFailure(f) : f \in Failures}
    \cup { ModelScopeAnswer("", None),
           ModelScopeAnswer("", Some(<<>>)),
           ModelScopeAnswer("", Some(<<"">>)),
           ModelScopeAnswer("", Some(<<"https://ms/1", "https://ms/2">>)),
           ModelScopeAnswer("t1", Some(<<"https://ms/3">>)) }

\* ModelScope's answer to a task-status GET: task_status and message are ""
\* when absent.  The statuses that are neither 'SUCCEED' nor 'FAILED': the two
\* the provider documents, one it does not, and none.
NonTerminalStatuses == {"PENDING", "RUNNING", "succeed", ""}
TaskResponse(ok, status, images, message) ==
  [ok |-> ok, task_status |-> status, output_images |-> images, message |-> message]
TaskResponses ==
  {TaskResponse(FALSE, "", None, ""), TaskResponse(FALSE, "SUCCEED", Some(<<"https://out/1">>), "")}
    \cup {TaskResponse(TRUE, s, None, "") : s \in NonTerminalStatuses}
    \cup {TaskResponse(TRUE, "SUCCEED", o, "") :
            o \in {None, Some(<<>>), Some(<<"">>), Some(<<"https://out/1">>),
                   Some(<<"https://out/2", "https://out/1">>)}}
    \cup { TaskResponse(TRUE, "FAILED", None, ""),
           TaskResponse(TRUE, "FAILED", Some(<<"https://out/1">>), "nsfw") }

\* The answer to the image download: bytes and the content-type header ("" when
\* absent).
DownloadResponses ==
  {[ok |-> FALSE, bytes |-> <<>>, contentType |-> ""]}
    \cup {[ok |-> TRUE, bytes |-> b, contentType |-> t] :
            b \in {<<>>, <<65, 66, 67>>, <<255, 216>>}, t \in {"", "image/webp"}}


\* ------------------------------------------------------------------- state

Requests == 1 .. NumRequests

VARIABLES
  giteeKeyIndex,  \* the module-level rotation counter
  env,            \* process.env
  call,           \* per generateWithZImage call: where it is suspended, its locals, its outcome
  hist,           \* per call, history: what it did and what it was answered
  started,        \* history: calls started so far
  selections,     \* history: getNextGiteeApiKey calls that returned a key
  keysSeen        \* history: whether those calls were all given the same credential
                  \* string, and that string

vars == <<giteeKeyIndex, env, call, hist, started, selections, keysSeen>>

NoRequest == Request("", "", None)
NoConfig == Config(None, None, None, None)

\* A call's frame: pc is the await it is suspended at.
IdleCall ==
  [ pc |-> "idle", request |-> NoRequest, config |-> NoConfig,
    apiKey |-> None,    \* the bearer key of this call
    i |-> 0,            \* resolveImageUrls: loop index
    urls |-> <<>>,      \* resolveImageUrls: urls; then imageUrls
    attempt |-> 0,      \* pollModelScopeTask: loop index
    imageUrl |-> "",    \* the URL being downloaded
    result |-> None, error |-> None ]

\* A call's history.
NoHist ==
  [ ran |-> <<>>,       \* the adapters entered
    net |-> <<>>,       \* the outbound requests issued, in order
    pick |-> None,      \* its key selection: credential string, counter read, index, key
    uploads |-> <<>>,   \* <<i, url>> for every upload that returned a URL
    resolved |-> None,  \* imageUrls once the references are resolved
    async |-> None,     \* whether the generation POST carried X-ModelScope-Async-Mode
    pending |-> 0,      \* task polls answered with a non-terminal status
    slept |-> 0,        \* milliseconds waited between polls
    task |-> None,      \* the last task-status response
    target |-> "",      \* the URL given to downloadImageAsBase64
    resp |-> None ]     \* the last response to a POST or a download

NoKeysSeen == [any |-> FALSE, same |-> TRUE, keys |-> <<>>]

\* keysSeen after a selection from credential string keys.
SeeKeys(seen, keys) ==
  IF ~seen.any THEN [any |-> TRUE, same |-> TRUE, keys |-> keys]
  ELSE IF seen.same /\ seen.keys = keys THEN seen
  ELSE [any |-> TRUE, same |-> FALSE, keys |-> <<>>]

Init ==
  /\ giteeKeyIndex = 0
  /\ env \in Environments
  /\ call = [r \in Requests |-> IdleCall]
  /\ hist = [r \in Requests |-> NoHist]
  /\ started = 0
  /\ selections = 0
  /\ keysSeen = NoKeysSeen

\* A step of one call: its frame and history after the step.
To(c, h) == [call |-> c, hist |-> h]

\* The frame once the call has settled: the locals are gone, the inputs stay.
Settled(c) == [IdleCall EXCEPT !.pc = "done", !.request = c.request, !.config = c.config]

\* throw new Error(...): the call rejects.
Throw(c, h, err) == To([Settled(c) EXCEPT !.error = Some(err)], h)

\* return {type, url, cost}: the call resolves.
Return(c, h, res) == To([Settled(c) EXCEPT !.result = Some(res)], h)

\* An outbound request: fetch(...) or uploadToPicUI(...), awaited at pc.
Fetch(c, h, op, pc) == To([c EXCEPT !.pc = pc], [h EXCEPT !.net = Append(@, op)])

\* config.pricing?.x || 30
Price(p) == IF p # None /\ p[1] # 0 THEN p[1] ELSE DEFAULT_COST
GiteePrice(config) ==
  Price(IF config.pricing = None THEN None ELSE config.pricing[1].giteeImage)
ZImagePrice(config) ==
  Price(IF config.pricing = None THEN None ELSE config.pricing[1].zimageImage)

\* -------------------------------------------------------------- Key Rotator

\* list[i] in JavaScript: undefined (None) outside the list.
At(list, i) == IF i + 1 \in DOMAIN list THEN Some(list[i + 1]) ELSE None

\* Mutant: the counter is incremented before it is used.
getNextGiteeApiKeyPreIncrement(keys, index) ==
  LET keyList == KeyList(keys)
  IN  IF Len(keyList) = 0
      THEN [throws |-> TRUE, key |-> None, at |-> -1, giteeKeyIndex |-> index]
      ELSE [ throws |-> FALSE,
             key |-> At(keyList, (index + 1) % Len(keyList)),
             at |-> (index + 1) % Len(keyList),
             giteeKeyIndex |-> index + 1 ]

\* Mutant: the counter is used without the modulo.
getNextGiteeApiKeyNoModulo(keys, index) ==
  LET keyList == KeyList(keys)
  IN  IF Len(keyList) = 0
      THEN [throws |-> TRUE, key |-> None, at |-> -1, giteeKeyIndex |-> index]
      ELSE [ throws |-> FALSE,
             key |-> At(keyList, index),
             at |-> index,
             giteeKeyIndex |-> index + 1 ]

\* Mutant: the empty key list is not rejected (keyList[NaN] is undefined).
getNextGiteeApiKeyNoCheck(keys, index) ==
  LET keyList == KeyList(keys)
  IN  [ throws |-> FALSE,
        key |-> IF Len(keyList) = 0 THEN None ELSE At(keyList, index % Len(keyList)),
        at |-> IF Len(keyList) = 0 THEN -1 ELSE index % Len(keyList),
        giteeKeyIndex |-> index + 1 ]

\* Mutant: the counter is kept inside the key list, so it falls back to 0.
getNextGiteeApiKeyWrap(keys, index) ==
  LET keyList == KeyList(keys)
  IN  IF Len(keyList) = 0
      THEN [throws |-> TRUE, key |-> None, at |-> -1, giteeKeyIndex |-> index]
      ELSE [ throws |-> FALSE,
             key |-> At(keyList, index % Len(keyList)),
             at |-> index % Len(keyList),
             giteeKeyIndex |-> (index + 1) % Len(keyList) ]

\* getNextGiteeApiKey(keys) called with giteeKeyIndex = index: whether it
\* throws, the key it returns, the index it used and the counter afterwards.
getNextGiteeApiKey(keys, index) ==
  LET keyList == KeyList(keys)
  IN  IF Len(keyList) = 0
      THEN [throws |-> TRUE, key |-> None, at |-> -1, giteeKeyIndex |-> index]
      ELSE [ throws |-> FALSE,
             key |-> At(keyList, index % Len(keyList)),
             at |-> index % Len(keyList),
             giteeKeyIndex |-> index + 1 ]

\* config.giteeApiKey || process.env.GITEE_API_KEY || ''
GiteeApiKeys(config, e) == OrElse(OrElse(config.giteeApiKey, e.GITEE_API_KEY), Some(<<>>))[1]

\* ------------------------------------------------------------ Gitee adapter

\* generateWithGitee up to its await fetch: the step, and the rotation
\* counter afterwards.
generateWithGitee(c, h, index, e) ==
  LET apiKeys == GiteeApiKeys(c.config, e)
      next == getNextGiteeApiKey(apiKeys, index)
      h1 == [h EXCEPT !.ran = Append(@, "gitee")]
  IN  IF apiKeys = <<>>
      THEN [step |-> Throw(c, h1, ErrGiteeKeyNotConfigured), giteeKeyIndex |-> index, picked |-> FALSE]
      ELSE IF next.throws
      THEN [step |-> Throw(c, h1, ErrGiteeKeyListEmpty), giteeKeyIndex |-> next.giteeKeyIndex, picked |-> FALSE]
      ELSE [ step |-> Fetch([c EXCEPT !.apiKey = next.key],
                            [h1 EXCEPT !.pick = Some([keys |-> apiKeys, index |-> index, at |-> next.at, key |-> next.key])],
                            "gitee.generations", "giteeFetch"),
             giteeKeyIndex |-> next.giteeKeyIndex, picked |-> TRUE ]

\* Mutant: only the top-level message of the error body is looked up.
ErrMsgTopLevelOnly(body) ==
  IF body.parsed \in {"invalid", "null"} THEN body.text
  ELSE IF body.message # "" THEN body.message
  ELSE body.text

\* errMsg for the text of a non-success response: the same lines in both
\* adapters.  JSON.parse throws on text that is not JSON and errJson.error
\* throws on null; either way the catch leaves errMsg = errorText.
ErrMsg(body) ==
  IF body.parsed \in {"invalid", "null"} THEN body.text
  ELSE IF body.errorMessage # "" THEN body.errorMessage
  ELSE IF body.message # "" THEN body.message
  ELSE body.text

\* generateWithGitee from the POST's response on.
GiteeDone(c, h, response) ==
  IF ~response.ok THEN Throw(c, h, ErrGiteeApi(response.status, ErrMsg(response.body)))
  ELSE IF response.data = None \/ Len(response.data[1]) = 0 \/ response.data[1][1].b64_json = <<>>
  THEN Throw(c, h, ErrGiteeNoImageData)
  ELSE LET imageData == response.data[1][1]
           mimeType == IF imageData.type # "" THEN imageData.type ELSE "image/png"
       IN  Return(c, h, [ type |-> "gitee-image",
                          url |-> DataUri(mimeType, imageData.b64_json),
                          cost |-> GiteePrice(c.config) ])


\* ------------------------------------------------------- Reference Resolver

\* Mutant: the URL is put in front of the list.
PushFront(urls, url) == <<url>> \o urls

\* urls.push(url)
Push(urls, url) == Append(urls, url)

\* Mutant: the image host's key is required before the entry is looked at.
RECURSIVE ResolveLoopKeyFirst(_, _, _, _)
ResolveLoopKeyFirst(images, config, i, urls) ==
  IF ~(i < Len(images)) THEN [stop |-> "return", i |-> i, urls |-> urls]
  ELSE LET data == images[i + 1]
       IN  IF data = <<>> THEN ResolveLoopKeyFirst(images, config, i + 1, urls)
           ELSE IF ~Truthy(config.picuiApiKey) THEN [stop |-> "throw", i |-> i, urls |-> urls]
           ELSE IF isHttpUrl(data) THEN ResolveLoopKeyFirst(images, config, i + 1, Push(urls, data))
           ELSE [stop |-> "await", i |-> i, urls |-> urls]

\* The for loop of resolveImageUrls from index i with urls collected, up to
\* its next await, return or throw.
RECURSIVE ResolveLoop(_, _, _, _)
ResolveLoop(images, config, i, urls) ==
  IF ~(i < Len(images)) THEN [stop |-> "return", i |-> i, urls |-> urls]
  ELSE LET data == images[i + 1]
       IN  IF data = <<>> THEN ResolveLoop(images, config, i + 1, urls)
           ELSE IF isHttpUrl(data) THEN ResolveLoop(images, config, i + 1, Push(urls, data))
           ELSE IF ~Truthy(config.picuiApiKey) THEN [stop |-> "throw", i |-> i, urls |-> urls]
           ELSE [stop |-> "await", i |-> i, urls |-> urls]

\* ------------------------------------------------------------- Task Poller

\* downloadImageAsBase64(imageUrl) up to its await fetch.
StartDownload(c, h, imageUrl) ==
  Fetch([c EXCEPT !.imageUrl = imageUrl, !.attempt = 0], [h EXCEPT !.target = imageUrl],
        "download", "download")

\* Mutant: the loop runs while attempt <= TASK_POLL_MAX_ATTEMPTS.
PollLoopOneMore(c, h, attempt) ==
  IF attempt <= TASK_POLL_MAX_ATTEMPTS
  THEN Fetch([c EXCEPT !.attempt = attempt], h, "modelscope.task", "pollFetch")
  ELSE Throw(c, h, ErrTaskTimeout)

\* The for loop of pollModelScopeTask at its test, with attempt set.
PollLoop(c, h, attempt) ==
  IF attempt < TASK_POLL_MAX_ATTEMPTS
  THEN Fetch([c EXCEPT !.attempt = attempt], h, "modelscope.task", "pollFetch")
  ELSE Throw(c, h, ErrTaskTimeout)

\* Mutant: the last output image instead of the first.
LastOutput(data) ==
  IF data.output_images = None \/ Len(data.output_images[1]) = 0 THEN ""
  ELSE data.output_images[1][Len(data.output_images[1])]

\* data.output_images?.[0], "" when there is none.
FirstOutput(data) ==
  IF data.output_images = None \/ Len(data.output_images[1]) = 0 THEN ""
  ELSE data.output_images[1][1]

\* Mutant: a status the provider does not document fails the task.
PollBodyFailFast(c, h, response) ==
  IF ~response.ok THEN Throw(c, h, ErrTaskQuery)
  ELSE IF response.task_status = "SUCCEED"
  THEN IF FirstOutput(response) = "" THEN Throw(c, h, ErrTaskNoImage)
       ELSE StartDownload(c, h, FirstOutput(response))
  ELSE IF response.task_status \notin {"PENDING", "RUNNING"}
  THEN Throw(c, h, ErrTaskFailed(response.message))
  ELSE To([c EXCEPT !.pc = "pollSleep"], [h EXCEPT !.pending = @ + 1])

\* Mutant: a status GET that is not ok is polled again after the wait.
PollBodyRetry(c, h, response) ==
  IF ~response.ok THEN To([c EXCEPT !.pc = "pollSleep"], h)
  ELSE IF response.task_status = "SUCCEED"
  THEN IF FirstOutput(response) = "" THEN Throw(c, h, ErrTaskNoImage)
       ELSE StartDownload(c, h, FirstOutput(response))
  ELSE IF response.task_status = "FAILED" THEN Throw(c, h, ErrTaskFailed(response.message))
  ELSE To([c EXCEPT !.pc = "pollSleep"], [h EXCEPT !.pending = @ + 1])

\* One poll's response: the loop body after the fetch.
PollBody(c, h, response) ==
  IF ~response.ok THEN Throw(c, h, ErrTaskQuery)
  ELSE IF response.task_status = "SUCCEED"
  THEN IF FirstOutput(response) = "" THEN Throw(c, h, ErrTaskNoImage)
       ELSE StartDownload(c, h, FirstOutput(response))
  ELSE IF response.task_status = "FAILED" THEN Throw(c, h, ErrTaskFailed(response.message))
  ELSE To([c EXCEPT !.pc = "pollSleep"], [h EXCEPT !.pending = @ + 1])

\* -------------------------------------------------------- ModelScope adapter

ModelId(request) == IF request.model # "" THEN request.model ELSE DEFAULT_MODELSCOPE_MODEL

\* Mutant: the models that require a reference image are taken for the
\* asynchronous ones.
UseAsyncIfReference(request) == ModelId(request) \in REQUIRE_REFERENCE_MODELS

UseAsync(request) == ModelId(request) \in ASYNC_MODELS

\* Mutant: the reference check is missing.
AfterResolveNoCheck(c, h, imageUrls) ==
  Fetch([c EXCEPT !.urls = imageUrls, !.i = 0],
        [h EXCEPT !.resolved = Some(imageUrls), !.async = Some(UseAsync(c.request))],
        "modelscope.generations", "msFetch")

\* generateWithModelScope once resolveImageUrls has returned imageUrls, up to
\* its await fetch.
AfterResolve(c, h, imageUrls) ==
  LET h1 == [h EXCEPT !.resolved = Some(imageUrls)]
  IN  IF ModelId(c.request) \in REQUIRE_REFERENCE_MODELS /\ Len(imageUrls) = 0
      THEN Throw(c, h1, ErrReferenceRequired)
      ELSE Fetch([c EXCEPT !.urls = imageUrls, !.i = 0],
                 [h1 EXCEPT !.async = Some(UseAsync(c.request))],
                 "modelscope.generations", "msFetch")

\* resolveImageUrls from index i on, and what follows it.
resolveImageUrls(c, h, i, urls) ==
  LET loop == ResolveLoop(c.request.images[1], c.config, i, urls)
  IN  IF loop.stop = "throw" THEN Throw(c, h, ErrPicUINotConfigured)
      ELSE IF loop.stop = "await"
      THEN Fetch([c EXCEPT !.i = loop.i, !.urls = loop.urls], h, "picui.upload", "upload")
      ELSE AfterResolve(c, h, loop.urls)

\* uploadToPicUI has answered url.
UploadDone(c, h, url) ==
  IF ~Truthy(url) THEN Throw(c, h, ErrUploadFailed)
  ELSE resolveImageUrls(c, [h EXCEPT !.uploads = Append(@, <<c.i, url[1]>>)],
                        c.i + 1, Push(c.urls, url[1]))

\* generateWithModelScope up to its first await.
generateWithModelScope(c, h, e) ==
  LET apiKey == OrElse(c.config.zimageApiKey, e.ZIMAGE_API_KEY)
      c1 == [c EXCEPT !.apiKey = apiKey]
      h1 == [h EXCEPT !.ran = Append(@, "modelscope")]
  IN  IF ~Truthy(apiKey) THEN Throw(c, h1, ErrZImageKeyNotConfigured)
      ELSE IF c.request.images # None /\ Len(c.request.images[1]) > 0
      THEN resolveImageUrls(c1, h1, 0, <<>>)
      ELSE AfterResolve(c1, h1, <<>>)

\* Mutant: an image in the POST's response is downloaded at once, also for an
\* asynchronous model.
ModelScopeDoneImageFirst(c, h, response) ==
  IF ~response.ok THEN Throw(c, h, ErrModelScopeApi(response.status, ErrMsg(response.body)))
  ELSE IF response.images # None /\ Len(response.images[1]) > 0 /\ response.images[1][1] # ""
  THEN StartDownload([c EXCEPT !.urls = <<>>], h, response.images[1][1])
  ELSE IF UseAsync(c.request)
  THEN IF response.task_id = "" THEN Throw(c, h, ErrNoTaskId)
       ELSE PollLoop([c EXCEPT !.urls = <<>>], h, 0)
  ELSE Throw(c, h, ErrNoImage)

\* generateWithModelScope from the POST's response on.
ModelScopeDone(c, h, response) ==
  IF ~response.ok THEN Throw(c, h, ErrModelScopeApi(response.status, ErrMsg(response.body)))
  ELSE IF UseAsync(c.request)
  THEN IF response.task_id = "" THEN Throw(c, h, ErrNoTaskId)
       ELSE PollLoop([c EXCEPT !.urls = <<>>], h, 0)
  ELSE IF response.images = None \/ Len(response.images[1]) = 0 \/ response.images[1][1] = ""
  THEN Throw(c, h, ErrNoImage)
  ELSE StartDownload([c EXCEPT !.urls = <<>>], h, response.images[1][1])

\* Mutant: the response status is not checked.
DownloadDoneNoStatusCheck(c, h, response) ==
  LET contentType == IF response.contentType # "" THEN response.contentType ELSE "image/jpeg"
  IN  Return(c, h, [ type |-> "zimage-image",
                     url |-> DataUri(contentType, Base64(response.bytes)),
                     cost |-> ZImagePrice(c.config) ])

\* downloadImageAsBase64 from the response on, and the return that follows.
DownloadDone(c, h, response) ==
  IF ~response.ok THEN Throw(c, h, ErrDownload)
  ELSE LET contentType == IF response.contentType # "" THEN response.contentType ELSE "image/jpeg"
       IN  Return(c, h, [ type |-> "zimage-image",
                          url |-> DataUri(contentType, Base64(response.bytes)),
                          cost |-> ZImagePrice(c.config) ])

\* --------------------------------------------------------------- Dispatcher

\* Mutant: an absent channel selects Gitee.
ChannelDefaultGitee(request) == IF request.channel # "" THEN request.channel ELSE "gitee"

\* request.channel || 'modelscope'
Channel(request) == IF request.channel # "" THEN request.channel ELSE "modelscope"

\* ------------------------------------------------------------------ actions

Settle(r, step) ==
  /\ call' = [call EXCEPT ![r] = step.call]
  /\ hist' = [hist EXCEPT ![r] = step.hist]

\* generateWithZImage(request) is called: up to await getSystemConfig().
Generate(r, requests, limit) ==
  /\ call[r].pc \in {"idle", "done"}
  /\ started < limit
  /\ \E request \in requests :
       Settle(r, To([IdleCall EXCEPT !.pc = "getSystemConfig", !.request = request], NoHist))
  /\ started' = started + 1
  /\ UNCHANGED <<giteeKeyIndex, env, selections, keysSeen>>

\* getSystemConfig() resolves with config: the adapter runs to its first await.
ConfigLoaded(r, configs) ==
  /\ call[r].pc = "getSystemConfig"
  /\ \E config \in configs :
       LET c == [call[r] EXCEPT !.config = config]
       IN  IF Channel(c.request) = "gitee"
           THEN LET g == generateWithGitee(c, hist[r], giteeKeyIndex, env)
                IN  /\ Settle(r, g.step)
                    /\ giteeKeyIndex' = g.giteeKeyIndex
                    /\ selections' = IF g.picked THEN selections + 1 ELSE selections
                    /\ keysSeen' = IF g.picked THEN SeeKeys(keysSeen, GiteeApiKeys(config, env))
                                   ELSE keysSeen
           ELSE /\ Settle(r, generateWithModelScope(c, hist[r], env))
                /\ UNCHANGED <<giteeKeyIndex, selections, keysSeen>>
  /\ UNCHANGED <<env, started>>

\* Mutant: the inter-poll wait blocks the event loop, so no other call's
\* continuation runs while a poller sleeps.
RespondUnlessSleeping(r, step) ==
  /\ \A s \in Requests \ {r} : call[s].pc # "pollSleep"
  /\ Settle(r, step)
  /\ UNCHANGED <<giteeKeyIndex, env, started, selections, keysSeen>>

\* A response arrives for the call suspended at pc; body continues the call from it.
Respond(r, step) ==
  /\ Settle(r, step)
  /\ UNCHANGED <<giteeKeyIndex, env, started, selections, keysSeen>>

Heard(h, response) == [h EXCEPT !.resp = Some(response)]
HeardTask(h, response) == [h EXCEPT !.task = Some(response)]

GiteeResponse(r, responses) ==
  /\ call[r].pc = "giteeFetch"
  /\ \E response \in responses :
       Respond(r, GiteeDone(call[r], Heard(hist[r], response), response))

UploadResponse(r) ==
  /\ call[r].pc = "upload"
  /\ \E url \in UploadResults : Respond(r, UploadDone(call[r], hist[r], url))

ModelScopeResponse(r) ==
  /\ call[r].pc = "msFetch"
  /\ \E response \in ModelScopeResponses :
       Respond(r, ModelScopeDone(call[r], Heard(hist[r], response), response))

PollResponse(r) ==
  /\ call[r].pc = "pollFetch"
  /\ \E response \in TaskResponses :
       Respond(r, PollBody(call[r], HeardTask(hist[r], response), response))

\* The inter-poll timer fires: attempt++ and the loop test.
PollWake(r) ==
  /\ call[r].pc = "pollSleep"
  /\ Respond(r, PollLoop(call[r], [hist[r] EXCEPT !.slept = @ + TASK_POLL_INTERVAL_MS],
                         call[r].attempt + 1))

DownloadResponse(r) ==
  /\ call[r].pc = "download"
  /\ \E response \in DownloadResponses :
       Respond(r, DownloadDone(call[r], Heard(hist[r], response), response))

\* One generateWithZImage call from start to end, any request, any configuration.
Next ==
  \/ Generate(1, ZImageRequests, 1)
  \/ ConfigLoaded(1, SystemConfigs)
  \/ GiteeResponse(1, GiteeResponses)
  \/ UploadResponse(1)
  \/ ModelScopeResponse(1)
  \/ PollResponse(1)
  \/ PollWake(1)
  \/ DownloadResponse(1)

Spec == Init /\ [][Next]_vars

\* Concurrent Gitee calls, one after another on each of NumRequests request
\* handlers, with the configuration changing between them.
NextConcurrent ==
  \E r \in Requests :
    \/ Generate(r, GiteeRequests, MaxCalls)
    \/ ConfigLoaded(r, RotationConfigs)
    \/ GiteeResponse(r, GiteeAnswers)

SpecConcurrent == Init /\ [][NextConcurrent]_vars

\* The inputs of the polling specification: one configuration with every key
\* set; an asynchronous ModelScope request; a Gitee request and a synchronous
\* ModelScope request with one reference image to upload.
PollingConfigs == {Config(Some(KeysAB), Some(ZKey), Some(PKey), None)}
PollerRequests == {Request("", "Qwen/Qwen-Image", None)}
OtherRequests == {Request("gitee", "", None), Request("", "", Some(<<RawB>>))}

\* A call that runs through the task poller on handler 1 while a Gitee or a
\* synchronous ModelScope call runs on handler 2, their steps interleaved in
\* every order.
NextPolling ==
  \/ Generate(1, PollerRequests, 2)
  \/ ConfigLoaded(1, PollingConfigs)
  \/ ModelScopeResponse(1)
  \/ PollResponse(1)
  \/ PollWake(1)
  \/ DownloadResponse(1)
  \/ Generate(2, OtherRequests, 2)
  \/ ConfigLoaded(2, PollingConfigs)
  \/ GiteeResponse(2, GiteeResponses)
  \/ UploadResponse(2)
  \/ ModelScopeResponse(2)
  \/ DownloadResponse(2)

SpecPolling == Init /\ [][NextPolling]_vars

\* The inputs of the mixed specification: a ModelScope key and a Gitee
\* credential string that is absent, holds two keys or holds none; a
\* synchronous and an asynchronous ModelScope request; Gitee answers without
\* success, without image data and with an image.
MixedConfigs == {Config(g, Some(ZKey), None, None) : g \in {None, Some(KeysAB), Some(KeysBlank)}}
MixedModelScopeRequests == {Request("", "", None), Request("modelscope", "Qwen/Qwen-Image", None)}
MixedGiteeAnswers == GiteeAnswers \cup {GiteeAnswer(Some(<<>>))}

\* ModelScope calls one after another on handler 1 and Gitee calls one after
\* another on handler 2, their steps interleaved in every order.
NextMixed ==
  \/ Generate(1, MixedModelScopeRequests, MaxCalls)
  \/ ConfigLoaded(1, MixedConfigs)
  \/ ModelScopeResponse(1)
  \/ PollResponse(1)
  \/ PollWake(1)
  \/ DownloadResponse(1)
  \/ Generate(2, GiteeRequests, MaxCalls)
  \/ ConfigLoaded(2, MixedConfigs)
  \/ GiteeResponse(2, MixedGiteeAnswers)

SpecMixed == Init /\ [][NextMixed]_vars


\* ------------------------------------------------------------------ claims

\* The credential string a call works with.
Credentials(r) == GiteeApiKeys(call[r].config, env)

\* A credential string that is empty or holds only commas and whitespace.
Blank(keys) == \A n \in 1 .. Len(keys) : keys[n] \in WhiteSpace \cup {","}

\* Call r makes its key selection in this step.
Selects(r) == hist[r].pick = None /\ hist'[r].pick # None

\* C1: while every selection so far was given the same credential string,
\* with K >= 1 keys, the selection made after n earlier ones returns key
\* number n mod K of that string's key list, whatever other calls are in
\* flight.
C1_RotationInOrder ==
  [][\A r \in Requests :
       (Selects(r) /\ keysSeen'.same) =>
         LET keyList == KeyList(keysSeen'.keys)
         IN  /\ Len(keyList) >= 1
             /\ hist'[r].pick[1].key = Some(keyList[(selections % Len(keyList)) + 1])
             /\ call'[r].apiKey = hist'[r].pick[1].key]_vars

\* C1 witness: with two calls in flight, the fourth selection from "a,b,c"
\* has wrapped around to the first key.
C1_Witness ==
  /\ keysSeen.same /\ keysSeen.keys = KeysABC /\ selections = 4
  /\ \E r, s \in Requests :
       /\ r # s
       /\ call[s].pc = "giteeFetch"
       /\ call[r].pc = "giteeFetch"
       /\ hist[r].pick[1].index = 3
       /\ hist[r].pick[1].key = Some(<<"a">>)

\* C2: every selection indexes the key list of its own call inside that
\* list, also when the list's length differs from call to call, and no
\* increment is lost: the counter equals the number of selections made and
\* no two selections read the same counter value.
C2_SelectionInRange ==
  /\ giteeKeyIndex = selections
  /\ \A r \in Requests :
       hist[r].pick # None =>
         LET p == hist[r].pick[1]
             keyList == KeyList(Credentials(r))
         IN  /\ p.at \in 0 .. (Len(keyList) - 1)
             /\ p.key = Some(keyList[p.at + 1])
             /\ p.index < giteeKeyIndex
             /\ \A s \in Requests \ {r} :
                  hist[s].pick # None => hist[s].pick[1].index # p.index

\* C2 witness: two calls in flight hold keys selected from lists of different
\* lengths, the later one from the shorter list after the counter passed its
\* length.
C2_Witness ==
  \E r, s \in Requests :
    /\ call[r].pc = "giteeFetch" /\ call[s].pc = "giteeFetch"
    /\ Credentials(r) = KeysABC /\ hist[r].pick[1].index = 2
    /\ Credentials(s) = KeysC /\ hist[s].pick[1].index = 3

\* C3: a Gitee call whose credential string is empty or holds only commas and
\* whitespace fails with ConfigurationError in the step that reads it: no key
\* is selected, the counter is left as it was and no HTTP call is issued.
C3_BlankCredentialsFail ==
  [][\A r \in Requests :
       ( /\ call[r].pc = "getSystemConfig"
         /\ call'[r].pc # "getSystemConfig"
         /\ Channel(call'[r].request) = "gitee"
         /\ Blank(GiteeApiKeys(call'[r].config, env)) ) =>
         /\ call'[r].pc = "done"
         /\ call'[r].result = None
         /\ call'[r].error # None
         /\ call'[r].error[1].kind = "ConfigurationError"
         /\ call'[r].apiKey = None
         /\ hist'[r].pick = None
         /\ hist'[r].net = <<>>
         /\ giteeKeyIndex' = giteeKeyIndex
         /\ selections' = selections]_vars

\* C3 witness: after two selections, one call has failed on the string " , "
\* and another on an absent credential string.
C3_Witness ==
  /\ giteeKeyIndex = 2
  /\ \E r, s \in Requests :
       /\ call[r].pc = "done" /\ call[r].config.giteeApiKey = Some(KeysBlank)
       /\ call[r].error = Some(ErrGiteeKeyListEmpty) /\ hist[r].net = <<>>
       /\ call[s].pc = "done" /\ call[s].config.giteeApiKey = None
       /\ call[s].error = Some(ErrGiteeKeyNotConfigured) /\ hist[s].net = <<>>


\* How many requests of kind op call r has issued.
Issued(r, op) == Len(SelectSeq(hist[r].net, LAMBDA x : x = op))

\* C4: a task answered with a non-terminal status on 60 consecutive polls has
\* been sent exactly 60 status GETs; the call is then waiting for the last
\* interval or has failed with TimeoutError, without a result and without an
\* image download.  No task is ever sent a 61st GET.
C4_PollBudget ==
  \A r \in Requests :
    /\ Issued(r, "modelscope.task") <= 60
    /\ hist[r].pending = 60 =>
         /\ Issued(r, "modelscope.task") = 60
         /\ Issued(r, "download") = 0
         /\ call[r].result = None
         /\ call[r].pc \in {"pollSleep", "done"}
         /\ call[r].pc = "done" =>
              /\ call[r].error = Some(ErrTaskTimeout)
              /\ call[r].error[1].kind = "TimeoutError"

\* C4 witness: a call has failed with TimeoutError after 60 non-terminal polls.
C4_Witness ==
  /\ hist[1].pending = 60
  /\ call[1].pc = "done"
  /\ call[1].error = Some(ErrTaskTimeout)
  /\ hist[1].task[1].task_status = "RUNNING"

\* The last task poll of call r answered SUCCEED.
Succeeded(r) ==
  /\ hist[r].task # None
  /\ hist[r].task[1].ok
  /\ hist[r].task[1].task_status = "SUCCEED"

\* Call r has returned the bytes of download response d, re-encoded as a data
\* URI and tagged zimage-image.
Reencoded(r, d) ==
  /\ call[r].result # None
  /\ call[r].result[1].type = "zimage-image"
  /\ call[r].result[1].url =
       [ mime |-> IF d.contentType = "" THEN "image/jpeg" ELSE d.contentType,
         base64 |-> Base64(d.bytes) ]

\* C5 as stated: after k-1 non-terminal polls and a SUCCEED with a non-empty
\* output_images list on poll k, the call has issued k status GETs and
\* downloads the first entry of the list, its result being that download
\* re-encoded.
C5_AsStated ==
  \A r \in Requests :
    ( /\ Succeeded(r)
      /\ hist[r].task[1].output_images # None
      /\ Len(hist[r].task[1].output_images[1]) > 0 ) =>
      /\ Issued(r, "modelscope.task") = hist[r].pending + 1
      /\ Issued(r, "download") = 1
      /\ hist[r].target = hist[r].task[1].output_images[1][1]
      /\ call[r].result # None => Reencoded(r, hist[r].resp[1])

\* C5, amended: after k-1 non-terminal polls and a SUCCEED whose first
\* output_images entry is a non-empty URL on poll k, the call has issued
\* exactly k status GETs and one download, of that URL; when the download is
\* answered with success the call's result is the downloaded bytes re-encoded
\* and tagged zimage-image, otherwise the call fails without a result.
C5_SucceedOnPollK ==
  \A r \in Requests :
    ( /\ Succeeded(r)
      /\ hist[r].task[1].output_images # None
      /\ Len(hist[r].task[1].output_images[1]) > 0
      /\ hist[r].task[1].output_images[1][1] # "" ) =>
      /\ Issued(r, "modelscope.task") = hist[r].pending + 1
      /\ Issued(r, "download") = 1
      /\ hist[r].target = hist[r].task[1].output_images[1][1]
      /\ call[r].pc \in {"download", "done"}
      /\ call[r].pc = "done" =>
           IF hist[r].resp[1].ok
           THEN call[r].error = None /\ Reencoded(r, hist[r].resp[1])
           ELSE call[r].error = Some(ErrDownload) /\ call[r].result = None

\* C5 witness: Qwen/Qwen-Image, two non-terminal polls, SUCCEED on the third
\* with two output images; the first one was downloaded and "ABC" came back.
C5_Witness ==
  /\ call[1].request.model = "Qwen/Qwen-Image"
  /\ hist[1].pending = 2
  /\ Issued(1, "modelscope.task") = 3
  /\ Succeeded(1)
  /\ hist[1].task[1].output_images = Some(<<"https://out/2", "https://out/1">>)
  /\ hist[1].target = "https://out/2"
  /\ call[1].pc = "done"
  /\ call[1].result # None
  /\ call[1].result[1].type = "zimage-image"
  /\ call[1].result[1].url = DataUri("image/webp", <<"Q", "U", "J", "D">>)


\* C6: a ModelScope call for a model that requires a reference image, whose
\* reference resolution ended with no URL, has failed with ValidationError
\* and has issued no network call: no upload, no generation POST, no
\* task-status GET, no download.
C6_ReferenceRequired ==
  \A r \in Requests :
    ( /\ hist[r].ran = <<"modelscope">>
      /\ hist[r].resolved = Some(<<>>)
      /\ ModelId(call[r].request) \in {"Qwen/Qwen-Image-Edit-2509"} ) =>
      /\ call[r].pc = "done"
      /\ call[r].result = None
      /\ call[r].error = Some(ErrReferenceRequired)
      /\ call[r].error[1].kind = "ValidationError"
      /\ hist[r].net = <<>>
      /\ hist[r].uploads = <<>>

\* C6 witness: Qwen/Qwen-Image-Edit-2509 with one reference image of empty
\* data has failed with ValidationError.
C6_Witness ==
  /\ call[1].request = Request("", "Qwen/Qwen-Image-Edit-2509", Some(<< <<>> >>))
  /\ call[1].pc = "done"
  /\ call[1].error = Some(ErrReferenceRequired)
  /\ hist[1].net = <<>>

\* The URL the upload of entry i returned, <<>> when there was none.
UploadedFor(uploads, i) ==
  LET hits == {n \in DOMAIN uploads : uploads[n][1] = i}
  IN  IF hits = {} THEN <<>> ELSE uploads[CHOOSE n \in hits : TRUE][2]

\* data begins with http:// or https://.
IsUrl(data) == \E n \in 1 .. Len(data) : SubSeq(data, 1, n) \in {HttpPrefix, HttpsPrefix}

\* One URL per entry of images[from..] with non-empty data, in the entries'
\* order: the entry itself when it is an http(s) URL, else the URL its
\* upload returned.
RECURSIVE ExpectedUrls(_, _, _)
ExpectedUrls(images, uploads, from) ==
  IF from > Len(images) THEN <<>>
  ELSE LET data == images[from]
           rest == ExpectedUrls(images, uploads, from + 1)
       IN  IF data = <<>> THEN rest
           ELSE IF IsUrl(data)
           THEN <<data>> \o rest
           ELSE <<UploadedFor(uploads, from - 1)>> \o rest

\* C7: when resolveImageUrls has returned, its output holds exactly one URL
\* per input entry with non-empty data, in input order: empty entries are
\* dropped, an http(s) entry is itself, a raw entry is the URL its upload
\* returned; and exactly the raw entries were uploaded.
C7_ResolverOrder ==
  \A r \in Requests :
    (hist[r].resolved # None /\ call[r].request.images # None) =>
      LET images == call[r].request.images[1]
      IN  /\ hist[r].resolved[1] = ExpectedUrls(images, hist[r].uploads, 1)
          /\ Len(hist[r].resolved[1]) = Cardinality({n \in DOMAIN images : images[n] # <<>>})
          /\ Len(hist[r].uploads) =
               Cardinality({n \in DOMAIN images : images[n] # <<>> /\ ~IsUrl(images[n])})
          /\ Issued(r, "picui.upload") = Len(hist[r].uploads)

\* C7 witness: [urlA, "", rawB] has resolved to [urlA, the URL rawB's upload
\* returned].
C7_Witness ==
  /\ call[1].request.images = Some(<<UrlA, <<>>, RawB>>)
  /\ hist[1].uploads = << <<2, PicUrl2>> >>
  /\ hist[1].resolved = Some(<<UrlA, PicUrl2>>)
  /\ call[1].pc = "msFetch"

\* The messages of the errors thrown inside the Gitee adapter.
GiteeErrors ==
  { "gitee-api-key-not-configured", "gitee-api-key-list-empty", "gitee-api-error",
    "gitee-no-image-data" }

\* C8: a call with channel gitee enters the Gitee adapter, exactly once, and
\* calls nothing but the Gitee endpoint; a call with any other or no channel
\* enters the ModelScope adapter, exactly once, never calls the Gitee
\* endpoint and never selects a Gitee key; a failed call carries the error
\* of the adapter it entered.
C8_NoFallback ==
  \A r \in Requests :
    call[r].pc \notin {"idle", "getSystemConfig"} =>
      IF call[r].request.channel = "gitee"
      THEN /\ hist[r].ran = <<"gitee">>
           /\ \A n \in DOMAIN hist[r].net : hist[r].net[n] = "gitee.generations"
           /\ Len(hist[r].net) <= 1
           /\ call[r].error # None => call[r].error[1].msg \in GiteeErrors
           /\ call[r].result # None => call[r].result[1].type = "gitee-image"
      ELSE /\ hist[r].ran = <<"modelscope">>
           /\ \A n \in DOMAIN hist[r].net : hist[r].net[n] # "gitee.generations"
           /\ Issued(r, "modelscope.generations") <= 1
           /\ hist[r].pick = None
           /\ call[r].error # None => call[r].error[1].msg \notin GiteeErrors
           /\ call[r].result # None => call[r].result[1].type = "zimage-image"

\* C8 witness: a gitee call has failed on the provider's answer after its one
\* POST.
C8_Witness ==
  /\ call[1].request.channel = "gitee"
  /\ call[1].pc = "done"
  /\ call[1].error = Some(ErrGiteeApi(502, "Bad Gateway"))
  /\ hist[1].net = <<"gitee.generations">>

\* C9: a call has no outcome before it ends and exactly one when it has
\* ended: an error, or a result with channel tag, data URI and cost; a result
\* exists only when the image data arrived: Gitee answered with base64 data,
\* which the URI carries, or the ModelScope download was answered with
\* success and the URI carries its bytes.
C9_OneOutcome ==
  \A r \in Requests :
    /\ call[r].pc # "done" => call[r].result = None /\ call[r].error = None
    /\ call[r].pc = "done" => (call[r].result = None) # (call[r].error = None)
    /\ call[r].result # None =>
         LET res == call[r].result[1]
             last == hist[r].resp[1]
         IN  /\ DOMAIN res = {"type", "url", "cost"}
             /\ res.cost \in Nat
             /\ res.url.mime # ""
             /\ hist[r].resp # None
             /\ last.ok
             /\ IF res.type = "gitee-image"
                THEN /\ hist[r].net = <<"gitee.generations">>
                     /\ last.data[1][1].b64_json # <<>>
                     /\ res.url.base64 = last.data[1][1].b64_json
                ELSE /\ res.type = "zimage-image"
                     /\ hist[r].net[Len(hist[r].net)] = "download"
                     /\ Reencoded(r, last)

\* C9 witness: a synchronous ModelScope call has returned the downloaded
\* bytes 0xFF 0xD8 as a data URI.
C9_Witness ==
  /\ call[1].pc = "done"
  /\ call[1].error = None
  /\ call[1].request.model = ""
  /\ call[1].result # None
  /\ call[1].result[1].url = DataUri("image/jpeg", <<"/", "9", "g", "=">>)

\* The price configured for a channel's field of config.pricing, <<>> when
\* pricing or the field is absent.
Configured(config, field) ==
  IF config.pricing = None THEN None ELSE config.pricing[1][field]

\* C10 as stated: the cost of a result is the configured price when one is
\* configured (giteeImage for Gitee, zimageImage for ModelScope), whatever
\* integer it is, and 30 when none is.
C10_CostIsConfiguredPrice ==
  \A r \in Requests :
    call[r].result # None =>
      LET price == Configured(call[r].config,
                              IF call[r].result[1].type = "gitee-image" THEN "giteeImage"
                              ELSE "zimageImage")
      IN  call[r].result[1].cost = IF price # None THEN price[1] ELSE 30

\* What the code's scheduling guarantees about one call: the configuration
\* read resolves, the image host's upload settles, and the inter-poll timer
\* fires.  No fetch of this code is given a timeout or an abort signal, so
\* nothing guarantees that a provider's answer to a POST, a task-status GET or
\* a download ever arrives.
Fairness ==
  /\ WF_vars(ConfigLoaded(1, SystemConfigs))
  /\ WF_vars(UploadResponse(1))
  /\ WF_vars(PollWake(1))

SpecLive == Init /\ [][Next]_vars /\ Fairness

\* C11 as stated: every generate call that has started eventually ends, with
\* a result or an error (the poll budget's TimeoutError included), also when
\* a remote party never answers.
C11_EveryCallEnds ==
  \A r \in Requests : (call[r].pc # "idle") ~> (call[r].pc = "done")

\* Call r is inside pollModelScopeTask: awaiting a status GET or the timer.
InPoller(r) == call[r].pc \in {"pollFetch", "pollSleep"}

\* The step call s is waiting for can be taken.
CanStep(s) ==
  /\ call[s].pc = "getSystemConfig" => ENABLED ConfigLoaded(s, SystemConfigs)
  /\ call[s].pc = "giteeFetch" => ENABLED GiteeResponse(s, GiteeResponses)
  /\ call[s].pc = "upload" => ENABLED UploadResponse(s)
  /\ call[s].pc = "msFetch" => ENABLED ModelScopeResponse(s)
  /\ call[s].pc = "pollFetch" => ENABLED PollResponse(s)
  /\ call[s].pc = "pollSleep" => ENABLED PollWake(s)
  /\ call[s].pc = "download" => ENABLED DownloadResponse(s)

\* C12: while a call is inside the task poller, the step every other call is
\* waiting for can be taken, whether that call is in the Gitee or in the
\* ModelScope adapter; a step of the other call leaves the polling call as it
\* is, and a step of the polling call leaves the other call and the rotation
\* counter as they are.
C12_PollerBlocksNoOne ==
  [][\A r \in Requests :
       InPoller(r) =>
         \A s \in Requests \ {r} :
           /\ CanStep(s)
           /\ call'[s] # call[s] => call'[r] = call[r] /\ hist'[r] = hist[r]
           /\ call'[r] # call[r] =>
                call'[s] = call[s] /\ hist'[s] = hist[s] /\ giteeKeyIndex' = giteeKeyIndex]_vars

\* C12 witness: while call 1 waits between its third and fourth poll, call 2
\* has uploaded its reference image, posted and downloaded, and has returned
\* its result.
C12_Witness ==
  /\ call[1].pc = "pollSleep"
  /\ hist[1].pending = 3
  /\ call[2].pc = "done"
  /\ call[2].result # None
  /\ hist[2].net = <<"picui.upload", "modelscope.generations", "download">>

\* The provider message of a non-success body: the JSON object's
\* error.message when it has one (a non-empty string), else its top-level
\* message, else the raw text, which it also is when the text is not a JSON
\* object.
ProviderMessage(body) ==
  IF body.parsed = "object" /\ body.errorMessage # "" THEN body.errorMessage
  ELSE IF body.parsed = "object" /\ body.message # "" THEN body.message
  ELSE body.text

\* Call r's generation POST was answered with a non-success status.
PostFailed(r) ==
  /\ hist[r].resp # None
  /\ hist[r].net # <<>>
  /\ hist[r].net[Len(hist[r].net)] \in {"gitee.generations", "modelscope.generations"}
  /\ ~hist[r].resp[1].ok

\* C13: in both adapters a generation POST answered with a non-success
\* status ends the call with a ProviderError that carries the HTTP status and
\* the provider message (error.message, else message, else the raw text);
\* there is no result, and no task-status GET and no download was issued.
C13_PostFailure ==
  \A r \in Requests :
    PostFailed(r) =>
      /\ call[r].pc = "done"
      /\ call[r].result = None
      /\ call[r].error # None
      /\ call[r].error[1].kind = "ProviderError"
      /\ call[r].error[1].msg =
           IF hist[r].ran = <<"gitee">> THEN "gitee-api-error" ELSE "modelscope-api-error"
      /\ call[r].error[1].status = hist[r].resp[1].status
      /\ call[r].error[1].status \notin 200 .. 299
      /\ call[r].error[1].text = ProviderMessage(hist[r].resp[1].body)
      /\ Issued(r, "modelscope.task") = 0
      /\ Issued(r, "download") = 0

\* C13 witness: a ModelScope call was answered 401 with
\* {"error":{"message":"bad key"},"message":"denied"} and has failed with
\* status 401 and message "bad key".
C13_Witness ==
  /\ hist[1].ran = <<"modelscope">>
  /\ PostFailed(1)
  /\ hist[1].resp[1].body.errorMessage = "bad key"
  /\ hist[1].resp[1].body.message = "denied"
  /\ call[1].error = Some(ErrModelScopeApi(401, "bad key"))

\* Call r takes a step from the await it is suspended at.
Steps(r, pc) == call[r].pc = pc /\ call'[r] # call[r]

\* C14: a task-status GET answered with success and a task_status other than
\* SUCCEED and FAILED (PENDING, RUNNING, an unknown or an absent status) puts
\* the call into the inter-poll wait without an error, a result or another
\* request; when the wait of 5 seconds is over the call issues the next status
\* GET if fewer than 60 were made and fails with TimeoutError otherwise.
C14_NonTerminalKeepsPolling ==
  [][\A r \in Requests :
       /\ ( /\ Steps(r, "pollFetch")
            /\ hist'[r].task[1].ok
            /\ hist'[r].task[1].task_status \notin {"SUCCEED", "FAILED"} ) =>
            /\ call'[r].pc = "pollSleep"
            /\ call'[r].error = None /\ call'[r].result = None
            /\ call'[r].attempt = call[r].attempt
            /\ hist'[r].net = hist[r].net
            /\ hist'[r].slept = hist[r].slept
       /\ Steps(r, "pollSleep") =>
            /\ hist'[r].slept = hist[r].slept + 5000
            /\ hist'[r].task = hist[r].task
            /\ IF Issued(r, "modelscope.task") < 60
               THEN /\ call'[r].pc = "pollFetch"
                    /\ call'[r].error = None
                    /\ hist'[r].net = Append(hist[r].net, "modelscope.task")
               ELSE /\ call'[r].pc = "done"
                    /\ call'[r].error = Some(ErrTaskTimeout)
                    /\ hist'[r].net = hist[r].net]_vars

\* C14 witness: after the statuses "succeed" (not the provider's SUCCEED) and
\* none at all, the call has waited twice and issued its third status GET.
C14_Witness ==
  /\ call[1].pc = "pollFetch"
  /\ hist[1].task # None
  /\ hist[1].task[1].task_status = ""
  /\ hist[1].pending = 2
  /\ hist[1].slept = 10000
  /\ Issued(1, "modelscope.task") = 3

\* C15: once a status GET of a call was answered with a non-success HTTP
\* status, whatever the body says, the call has ended with ProviderError and
\* without a result; that GET is its last request (every earlier one was
\* answered with a non-terminal status), it did not wait after it and it
\* downloaded nothing.
C15_PollFailureEndsPolling ==
  \A r \in Requests :
    (hist[r].task # None /\ ~hist[r].task[1].ok) =>
      /\ call[r].pc = "done"
      /\ call[r].result = None
      /\ call[r].error = Some(ErrTaskQuery)
      /\ call[r].error[1].kind = "ProviderError"
      /\ hist[r].net[Len(hist[r].net)] = "modelscope.task"
      /\ Issued(r, "modelscope.task") = hist[r].pending + 1
      /\ hist[r].slept = 5000 * hist[r].pending
      /\ Issued(r, "download") = 0

\* C15 witness: the 60th status GET, after 59 non-terminal answers, was
\* answered with a non-success status whose body says SUCCEED: the call has
\* failed with ProviderError, not with TimeoutError.
C15_Witness ==
  /\ hist[1].pending = 59
  /\ Issued(1, "modelscope.task") = 60
  /\ hist[1].task = Some(TaskResponse(FALSE, "SUCCEED", Some(<<"https://out/1">>), ""))
  /\ call[1].pc = "done"
  /\ call[1].error = Some(ErrTaskQuery)

\* The first output image of a task response, "" when it has none.
FirstImage(task) ==
  IF task.output_images # None /\ Len(task.output_images[1]) > 0
  THEN task.output_images[1][1] ELSE ""

\* C16: after a status GET answered FAILED or SUCCEED the call issues no
\* further status GET; FAILED ends it with a ProviderError carrying the
\* provider's message, or a generic one when there is none, and SUCCEED
\* without a first output image ends it with a ProviderError, both without a
\* download; the poller hands a URL to the download only when its last
\* answer was SUCCEED with a non-empty first output image, and it is that
\* image's URL.
C16_TerminalResponses ==
  \A r \in Requests :
    (hist[r].task # None /\ hist[r].task[1].ok) =>
      LET task == hist[r].task[1]
      IN  /\ task.task_status \in {"SUCCEED", "FAILED"} =>
               /\ Issued(r, "modelscope.task") = hist[r].pending + 1
               /\ call[r].pc \in {"download", "done"}
          /\ task.task_status = "FAILED" =>
               /\ call[r].pc = "done" /\ call[r].result = None
               /\ call[r].error # None
               /\ call[r].error[1].kind = "ProviderError"
               /\ call[r].error[1].msg =
                    IF task.message # "" THEN task.message ELSE "modelscope-task-failed"
               /\ Issued(r, "download") = 0
          /\ (task.task_status = "SUCCEED" /\ FirstImage(task) = "") =>
               /\ call[r].pc = "done" /\ call[r].result = None
               /\ call[r].error = Some(ErrTaskNoImage)
               /\ call[r].error[1].kind = "ProviderError"
               /\ Issued(r, "download") = 0
          /\ (hist[r].target # "" \/ Issued(r, "download") > 0) =>
               /\ task.task_status = "SUCCEED"
               /\ FirstImage(task) # ""
               /\ hist[r].target = FirstImage(task)

\* C16 witness: the second status GET was answered FAILED with the message
\* "nsfw" (and an output image): the call has failed with that message and
\* downloaded nothing.
C16_Witness ==
  /\ hist[1].pending = 1
  /\ hist[1].task = Some(TaskResponse(TRUE, "FAILED", Some(<<"https://out/1">>), "nsfw"))
  /\ call[1].pc = "done"
  /\ call[1].error = Some([kind |-> "ProviderError", msg |-> "nsfw"])
  /\ hist[1].net = <<"modelscope.generations", "modelscope.task", "modelscope.task">>

\* The model id a ModelScope request works with, and whether it is one of the
\* three asynchronous models.
EffectiveModel(request) ==
  IF request.model = "" THEN "Tongyi-MAI/Z-Image-Turbo" ELSE request.model
IsAsyncModel(request) ==
  EffectiveModel(request) \in
    {"Qwen/Qwen-Image-Edit-2509", "Qwen/Qwen-Image", "black-forest-labs/FLUX.2-dev"}

\* C17: a ModelScope call's generation POST carries the async-mode header
\* exactly when its effective model id is one of the asynchronous models.
\* For those models a POST answered with success must carry a task id, the
\* poller then runs and a download follows only a poll answered SUCCEED; for
\* every other model id no task-status GET is ever issued and the URL that
\* is downloaded is the first image URL of the POST's response.
C17_AsyncIffAsyncModel ==
  \A r \in Requests :
    hist[r].ran = <<"modelscope">> =>
      LET request == call[r].request
          posted == Issued(r, "modelscope.generations") = 1
          answered == hist[r].resp # None
      IN  /\ posted <=> hist[r].async # None
          /\ posted => hist[r].async = Some(IsAsyncModel(request))
          /\ IsAsyncModel(request) =>
               /\ call[r].pc \in {"pollFetch", "pollSleep"} =>
                    /\ hist[r].resp[1].ok /\ hist[r].resp[1].task_id # ""
                    /\ Issued(r, "modelscope.task") >= 1
               /\ (answered /\ Issued(r, "modelscope.task") = 0) =>
                    /\ call[r].pc = "done"
                    /\ hist[r].resp[1].ok =>
                         hist[r].resp[1].task_id = "" /\ call[r].error = Some(ErrNoTaskId)
               /\ Issued(r, "download") > 0 => Succeeded(r)
          /\ ~IsAsyncModel(request) =>
               /\ Issued(r, "modelscope.task") = 0
               /\ hist[r].task = None
               /\ call[r].pc \notin {"pollFetch", "pollSleep"}
               /\ call[r].pc = "download" =>
                    /\ hist[r].resp[1].images # None
                    /\ hist[r].target = hist[r].resp[1].images[1][1]
               /\ Issued(r, "download") > 0 => hist[r].net[Len(hist[r].net) - 1] = "modelscope.generations"

\* C17 witness: two calls answered with both a task id and an image: the
\* one for black-forest-labs/FLUX.2-dev sent the header and polls ...
C17_Witness ==
  /\ call[1].request.model = "black-forest-labs/FLUX.2-dev"
  /\ hist[1].async = Some(TRUE)
  /\ hist[1].resp = Some(ModelScopeAnswer("t1", Some(<<"https://ms/3">>)))
  /\ call[1].pc = "pollSleep"

\* ... and the one for qwen/qwen-image sent no header and downloads the image
\* of the POST's response.
C17_WitnessSync ==
  /\ call[1].request.model = "qwen/qwen-image"
  /\ hist[1].async = Some(FALSE)
  /\ hist[1].resp = Some(ModelScopeAnswer("t1", Some(<<"https://ms/3">>)))
  /\ call[1].pc = "download"
  /\ hist[1].target = "https://ms/3"

\* The entries of images that are raw image data: not empty, not an http(s) URL.
RawEntries(images) == {n \in DOMAIN images : images[n] # <<>> /\ ~IsUrl(images[n])}

\* C18: in a ModelScope call that has an API key and reference images, only
\* raw entries are uploaded, and a list without raw entries resolves without
\* an image-host key.  With a raw entry and no image-host key the call fails
\* with ConfigurationError before any request; an upload that returns no URL
\* fails it with UploadError, that upload being its last request.  After
\* either failure no URL list exists and no generation POST was issued.
C18_ResolverFailures ==
  \A r \in Requests :
    ( /\ hist[r].ran = <<"modelscope">>
      /\ call[r].request.images # None
      /\ call[r].error # Some(ErrZImageKeyNotConfigured) ) =>
      LET images == call[r].request.images[1]
          hasKey == call[r].config.picuiApiKey \notin {<<>>, << <<>> >>}
          failed == /\ call[r].error # None
                    /\ call[r].error[1].kind \in {"ConfigurationError", "UploadError"}
      IN  /\ Issued(r, "picui.upload") <= Cardinality(RawEntries(images))
          /\ \A n \in DOMAIN hist[r].uploads : hist[r].uploads[n][1] + 1 \in RawEntries(images)
          /\ call[r].pc = "upload" => call[r].i + 1 \in RawEntries(images)
          /\ RawEntries(images) = {} => ~failed /\ hist[r].resolved # None
          /\ (RawEntries(images) # {} /\ ~hasKey) =>
               /\ call[r].pc = "done"
               /\ call[r].error = Some(ErrPicUINotConfigured)
               /\ call[r].error[1].kind = "ConfigurationError"
               /\ hist[r].net = <<>>
          /\ call[r].error = Some(ErrPicUINotConfigured) => RawEntries(images) # {} /\ ~hasKey
          /\ call[r].error = Some(ErrUploadFailed) =>
               /\ call[r].error[1].kind = "UploadError"
               /\ hasKey
               /\ \A n \in DOMAIN hist[r].net : hist[r].net[n] = "picui.upload"
               /\ Len(hist[r].net) = Len(hist[r].uploads) + 1
          /\ failed =>
               /\ call[r].pc = "done" /\ call[r].result = None
               /\ hist[r].resolved = None
               /\ Issued(r, "modelscope.generations") = 0

\* C18 witness: of [urlA, rawB, rawB] the first raw entry was uploaded and the
\* upload of the second returned no URL: UploadError after two uploads.
C18_Witness ==
  /\ call[1].request.images = Some(<<UrlA, RawB, RawB>>)
  /\ hist[1].uploads = << <<1, PicUrl1>> >>
  /\ hist[1].net = <<"picui.upload", "picui.upload">>
  /\ call[1].pc = "done"
  /\ call[1].error = Some(ErrUploadFailed)

\* The stage of a ModelScope call a request belongs to.
Stage(op) ==
  CASE op = "picui.upload" -> 1
    [] op = "modelscope.generations" -> 2
    [] op = "modelscope.task" -> 3
    [] op = "download" -> 4
    [] OTHER -> 0

\* The request a call suspended at pc is waiting for, "" when it waits for none.
Awaited(pc) ==
  CASE pc = "upload" -> "picui.upload"
    [] pc = "msFetch" -> "modelscope.generations"
    [] pc = "pollFetch" -> "modelscope.task"
    [] pc = "download" -> "download"
    [] OTHER -> ""

\* C19: the requests of a ModelScope call are issued in the order uploads,
\* generation POST, task-status GETs, download, nothing before the
\* configuration was read: the uploads in the order of their entries, at most
\* one POST and one download, status GETs only for an asynchronous model.
\* The call awaits only its latest request, so no two overlap.  The download
\* is issued only after a POST answered with an image URL (synchronous) or a
\* poll answered SUCCEED (asynchronous); a failed call has issued nothing
\* after the request that failed, and a result follows exactly one POST and
\* one download, the download last.
C19_NetworkOrder ==
  \A r \in Requests :
    /\ call[r].pc \in {"idle", "getSystemConfig"} => hist[r].net = <<>>
    /\ hist[r].ran = <<"modelscope">> =>
         LET net == hist[r].net
             ups == hist[r].uploads
         IN  /\ \A n \in DOMAIN net : Stage(net[n]) \in 1 .. 4
             /\ \A n \in 1 .. (Len(net) - 1) : Stage(net[n]) <= Stage(net[n + 1])
             /\ \A n \in 1 .. (Len(ups) - 1) : ups[n][1] < ups[n + 1][1]
             /\ Issued(r, "modelscope.generations") <= 1
             /\ Issued(r, "download") <= 1
             /\ Issued(r, "modelscope.task") > 0 =>
                  IsAsyncModel(call[r].request) /\ Issued(r, "modelscope.generations") = 1
             /\ Awaited(call[r].pc) # "" =>
                  net # <<>> /\ net[Len(net)] = Awaited(call[r].pc)
             /\ Issued(r, "download") = 1 =>
                  /\ Issued(r, "modelscope.generations") = 1
                  /\ IF IsAsyncModel(call[r].request)
                     THEN Succeeded(r) /\ hist[r].target = FirstImage(hist[r].task[1])
                     ELSE hist[r].target # "" /\ hist[r].task = None
                  /\ call[r].error # None => call[r].error = Some(ErrDownload)
             /\ call[r].result # None =>
                  /\ Issued(r, "download") = 1
                  /\ net[Len(net)] = "download"
                  /\ IsAsyncModel(call[r].request) => Issued(r, "modelscope.task") >= 1

\* C19 witness: Qwen/Qwen-Image-Edit-2509 with one raw reference image has
\* uploaded, posted, polled twice and downloaded, and has returned its result.
C19_Witness ==
  /\ call[1].request = Request("", "Qwen/Qwen-Image-Edit-2509", Some(<<RawB>>))
  /\ hist[1].net = << "picui.upload", "modelscope.generations", "modelscope.task",
                      "modelscope.task", "download" >>
  /\ call[1].pc = "done"
  /\ call[1].result # None

\* Call r leaves the configuration read in this step as a Gitee call.
GiteeStarts(r) ==
  /\ Steps(r, "getSystemConfig")
  /\ call[r].request.channel = "gitee"

\* C20: the rotation counter never decreases and changes by one at a time.
\* It grows, by exactly one, in the step in which a Gitee call obtains its
\* key, and in no other: not in the step of a Gitee call that fails the
\* credential check, not when the provider's answer arrives, whether it is an
\* image, a non-success status or a body without image data, and not in any
\* step of a ModelScope call.
C20_CounterFrame ==
  [][ /\ giteeKeyIndex' \in {giteeKeyIndex, giteeKeyIndex + 1}
      /\ \A r \in Requests :
           call'[r] # call[r] =>
             IF GiteeStarts(r) /\ call'[r].apiKey # None
             THEN /\ giteeKeyIndex' = giteeKeyIndex + 1
                  /\ call'[r].pc = "giteeFetch"
                  /\ ~Blank(GiteeApiKeys(call'[r].config, env))
             ELSE /\ giteeKeyIndex' = giteeKeyIndex
                  /\ GiteeStarts(r) =>
                       /\ call'[r].pc = "done"
                       /\ call'[r].error[1].kind = "ConfigurationError"
                       /\ Blank(GiteeApiKeys(call'[r].config, env)) ]_vars

\* C20 witness: while a ModelScope call waits in the poller, the counter
\* stands at 2 after two Gitee calls that obtained a key, the second of which
\* was answered without image data.
C20_Witness ==
  /\ giteeKeyIndex = 2
  /\ call[1].pc = "pollSleep"
  /\ call[2].pc = "done"
  /\ call[2].error = Some(ErrGiteeNoImageData)
  /\ hist[2].pick # None
  /\ hist[2].pick[1].index = 1

=============================================================================
